---- MODULE Spec2Model ----
(***************************************************************************)
(* Model of the train simulation (src/main2.py) and of the track node      *)
(* editor (src/node_editor.py).                                            *)
(*                                                                         *)
(* Numbers: the program computes in Python floats.  The model computes in  *)
(* exact arithmetic over the integers: every coordinate, length, speed and *)
(* dt drawn below is an integer, and the graph is chosen so that every     *)
(* segment length and every interpolated point is an integer too.  A       *)
(* ratio (the interpolation parameter t) is a pair <<num, den>>.           *)
(* Floating-point round-off is therefore outside the model.                *)
(*                                                                         *)
(* Three specifications:                                                   *)
(*   Spec       the program main2.py: load the roster, then the frame loop *)
(*   SpecTrain  one Train object driven through its methods step and       *)
(*              get_pos_at with arbitrary arguments                        *)
(*   SpecEditor the event loop of node_editor.py                           *)
(***************************************************************************)
EXTENDS Integers, Sequences, FiniteSets, TLC

VARIABLES
    \* ---- main2.py
    pc,           \* position of the main program
    trains_cfg,   \* the roster loaded from trains.json
    trains,       \* the list of Train objects
    running,      \* loop flag
    ticks,        \* completed iterations of the frame loop
    flagged,      \* per completed tick, the pairs detect_collisions reported
    bodies,       \* per train drawn in this frame, the polyline of Train.draw
    err,          \* the exception that ended the program, or NoErr
    \* ---- one Train under direct method calls
    tr,           \* the Train
    ref,          \* a second Train built from the same cfg
    call,         \* the last method call on tr, its arguments and results
    \* ---- node_editor.py
    enodes,          \* nodes: name -> [pos, type]
    edges,
    node_counter,
    selected_node,
    dragging_node,
    connecting_node,
    context_menu,
    erunning,        \* running
    eerr,            \* the exception that ended the editor, or NoErr
    saved,           \* whether nodes.json has been written
    events           \* the mouse-button events handled so far, oldest first

mainVars == <<pc, trains_cfg, trains, running, ticks, flagged, bodies, err>>
trainVars == <<tr, ref, call>>
editorVars == <<enodes, edges, node_counter, selected_node, dragging_node,
                connecting_node, context_menu, erunning, eerr, saved,
                events>>
vars == <<mainVars, trainVars, editorVars>>

\* ------------------------------------------------------------------ bounds
MaxTrains == 2
MaxTicks == 10
MaxAbsDist == 300
MaxEvents == 4
MaxNodes == 2

None == "None"
NoErr == [kind |-> "none"]
NoCall == [op |-> "none"]
NoMenu == [open |-> FALSE]
More == <<"more">>

\* ------------------------------------------------------------------ graph
\* graph.json: B and Bp are two nodes at the same position.
nodes ==
    [n \in {"A", "B", "Bp", "C"} |->
        CASE n = "A" -> [pos |-> <<0, 0>>]
          [] n = "B" -> [pos |-> <<100, 0>>]
          [] n = "Bp" -> [pos |-> <<100, 0>>]
          [] n = "C" -> [pos |-> <<100, 60>>]]

\* trains.json entries.  A key that is absent from a record is absent from
\* the JSON object.
CfgSet ==
    { [id |-> "T1", route |-> <<"A", "B">>, max_speed |-> 2, length |-> 40,
       start_dist |-> 0],
      [id |-> "T2", route |-> <<"A", "B">>, max_speed |-> 30, length |-> 40,
       start_dist |-> 30],
      [id |-> "T3", path |-> <<"A", "B", "Bp", "C">>, length |-> 20,
       start_dist |-> 250],
      [id |-> "T4", route |-> <<"A", "B", "C">>, max_speed |-> -30,
       length |-> 40, start_dist |-> -20],
      [name |-> "T5", route |-> <<"C", "B", "A">>, max_speed |-> 15,
       length |-> 0],
      [id |-> "T6", route |-> <<"B">>, start_dist |-> 10],
      [id |-> "T7", route |-> <<"B", "Bp">>, max_speed |-> 2],
      [id |-> "T8", route |-> <<>>, path |-> <<>>],
      [max_speed |-> 2],
      [id |-> "T9", route |-> <<"A", "Z", "Y">>] }

\* ---------------------------------------------------------------- helpers
Abs(x) == IF x < 0 THEN -x ELSE x

Max(a, b) == IF a >= b THEN a ELSE b

\* cfg.get(key, default)
Get(cfg, key, default) == IF key \in DOMAIN cfg THEN cfg[key] ELSE default

\* C's fmod: the result has the sign of a.
TruncMod(a, b) == IF a >= 0 THEN a % b ELSE -((-a) % b)

\* Python's a % b for b > 0: the result has the sign of b.
PyMod(a, b) == a % b

\* math.ceil(a / b) for b > 0
CeilDiv(a, b) == -((-a) \div b)

\* math.sqrt on a perfect square; the floor of the root otherwise
ISqrt(n) == CHOOSE r \in 0..(n + 1) : r * r <= n /\ (r + 1) * (r + 1) > n

\* lerp(a, b, t), t = <<num, den>>
lerp(a, b, t) ==
    <<a[1] + ((b[1] - a[1]) * t[1]) \div t[2],
      a[2] + ((b[2] - a[2]) * t[1]) \div t[2]>>

DistSq(a, b) == (a[1] - b[1]) * (a[1] - b[1]) + (a[2] - b[2]) * (a[2] - b[2])

dist(a, b) == ISqrt(DistSq(a, b))

RECURSIVE SumSeq(_)
SumSeq(s) == IF s = <<>> THEN 0 ELSE s[1] + SumSeq(Tail(s))

\* ------------------------------------------------------------ class Train
\* self.route = cfg.get("route") or cfg.get("path"); None and [] are both
\* falsy and both stand as <<>> here.
CfgRoute(cfg) ==
    IF Get(cfg, "route", <<>>) # <<>> THEN cfg.route ELSE Get(cfg, "path", <<>>)

CfgId(cfg) == Get(cfg, "id", Get(cfg, "name", "T?"))

\* The first node of the route that is not in the graph, or None.
RECURSIVE FirstUnknown(_)
FirstUnknown(route) ==
    IF route = <<>> THEN None
    ELSE IF route[1] \notin DOMAIN nodes THEN route[1]
    ELSE FirstUnknown(Tail(route))

\* The ValueError Train.__init__ raises for cfg, or NoErr.
TrainError(cfg) ==
    IF CfgRoute(cfg) = <<>>
    THEN [kind |-> "ValueError", id |-> CfgId(cfg), what |-> "missing route",
          node |-> None]
    ELSE IF FirstUnknown(CfgRoute(cfg)) # None
    THEN [kind |-> "ValueError", id |-> CfgId(cfg), what |-> "unknown node",
          node |-> FirstUnknown(CfgRoute(cfg))]
    ELSE NoErr

\* Train.__init__ on a cfg that raises nothing.
Train(cfg) ==
    LET route == CfgRoute(cfg)
        edge_points == [i \in 1..(Len(route) - 1) |->
                          <<nodes[route[i]].pos, nodes[route[i + 1]].pos>>]
        edge_lengths == [i \in 1..(Len(route) - 1) |->
                          dist(edge_points[i][1], edge_points[i][2])]
    IN [id |-> CfgId(cfg),
        route |-> route,
        max_speed |-> Get(cfg, "max_speed", 2),
        length |-> Get(cfg, "length", 40),
        edge_points |-> edge_points,
        edge_lengths |-> edge_lengths,
        total_len |-> SumSeq(edge_lengths),
        abs_dist |-> Get(cfg, "start_dist", 0)]

StepSubtractOnce(t, dt) ==
    LET d == t.abs_dist + t.max_speed * dt
    IN [t EXCEPT !.abs_dist =
            IF t.total_len > 0 /\ d >= t.total_len THEN d - t.total_len ELSE d]

StepTruncating(t, dt) ==
    LET d == t.abs_dist + t.max_speed * dt
    IN [t EXCEPT !.abs_dist =
            IF t.total_len > 0 THEN TruncMod(d, t.total_len) ELSE d]

\* Train.step
step(t, dt) ==
    LET d == t.abs_dist + t.max_speed * dt
    IN [t EXCEPT !.abs_dist =
            IF t.total_len > 0 THEN PyMod(d, t.total_len) ELSE d]

\* The loop of Train.get_pos_at from segment i on, rem still to consume.
RECURSIVE Walk(_, _, _)
Walk(t, i, rem) ==
    IF i > Len(t.edge_points) THEN t.edge_points[Len(t.edge_points)][2]
    ELSE LET a == t.edge_points[i][1]
             b == t.edge_points[i][2]
             seglen == t.edge_lengths[i]
         IN IF rem <= seglen \/ seglen = 0
            THEN lerp(a, b, IF seglen > 0 THEN <<rem, seglen>> ELSE <<0, 1>>)
            ELSE Walk(t, i + 1, rem - seglen)

GetPosAtTrunc(t, gdist) ==
    IF t.total_len = 0
    THEN IF t.edge_points # <<>> THEN t.edge_points[1][1] ELSE <<0, 0>>
    ELSE Walk(t, 1, TruncMod(gdist, t.total_len))

\* Train.get_pos_at
get_pos_at(t, gdist) ==
    IF t.total_len = 0
    THEN IF t.edge_points # <<>> THEN t.edge_points[1][1] ELSE <<0, 0>>
    ELSE Walk(t, 1, PyMod(gdist, t.total_len))

\* Camera.zoom as Camera.__init__ sets it; no zoom key is pressed.
zoom == 1

\* step_px, the default argument of polyline_between
step_px == 4

\* Train.polyline_between
polyline_between(t, back_gdist, front_gdist) ==
    LET step_dist == step_px \div zoom
        span0 == front_gdist - back_gdist
        span == IF span0 < 0 THEN span0 + t.total_len ELSE span0
        samples == Max(2, CeilDiv(span, step_dist))
    IN [i \in 1..(samples + 1) |->
          get_pos_at(t, back_gdist + ((i - 1) * span) \div samples)]

\* Train.draw raises ZeroDivisionError at abs_dist % total_len
DrawRaises(t) == t.total_len = 0

\* Train.draw: the points of the body, back first
draw(t) ==
    LET front == PyMod(t.abs_dist, t.total_len)
        back == front - t.length
    IN polyline_between(t, back, front)

\* ------------------------------------------------------ detect_collisions
\* d < min_dist with d = dist(p1, p2) and min_dist = (length_i + length_j)/2,
\* compared exactly: d >= 0, so d < m iff m > 0 and 4 d^2 < (2m)^2.
Collides(ts, i, j) ==
    LET p1_world == get_pos_at(ts[i], ts[i].abs_dist)
        p2_world == get_pos_at(ts[j], ts[j].abs_dist)
        sumlen == ts[i].length + ts[j].length
    IN sumlen > 0 /\ 4 * DistSq(p1_world, p2_world) < sumlen * sumlen

\* The pairs <<i, j>> reported by the loop from (i, j) on, in order.
RECURSIVE DetectFrom(_, _, _)
DetectFrom(ts, i, j) ==
    IF i > Len(ts) THEN <<>>
    ELSE IF j > Len(ts) THEN DetectFrom(ts, i + 1, i + 2)
    ELSE (IF Collides(ts, i, j) THEN <<(<<i, j>>)>> ELSE <<>>)
         \o DetectFrom(ts, i, j + 1)

DetectLatched(ts, before) ==
    IF before = <<>> THEN DetectFrom(ts, 1, 2)
    ELSE before[Len(before)] \o DetectFrom(ts, 1, 2)

\* detect_collisions: what this call reports; `before` are the earlier reports
detect_collisions(ts, before) == DetectFrom(ts, 1, 2)

\* ------------------------------------------------------------- main2.py
RECURSIVE SeqsUpTo(_, _)
SeqsUpTo(S, n) ==
    IF n = 0 THEN {<<>>}
    ELSE LET shorter == SeqsUpTo(S, n - 1)
         IN shorter \cup {Append(s, x) : s \in shorter, x \in S}

TrainIdle == tr = None /\ ref = None /\ call = NoCall

EditorIdle ==
    /\ enodes = <<>>
    /\ edges = <<>>
    /\ node_counter = 0
    /\ selected_node = None
    /\ dragging_node = None
    /\ connecting_node = None
    /\ context_menu = NoMenu
    /\ erunning = FALSE
    /\ eerr = NoErr
    /\ saved = FALSE
    /\ events = <<>>

MainIdle ==
    /\ pc = "idle"
    /\ trains_cfg = <<>>
    /\ trains = <<>>
    /\ running = FALSE
    /\ ticks = 0
    /\ flagged = <<>>
    /\ bodies = <<>>
    /\ err = NoErr

Init ==
    /\ pc = "load"
    /\ trains_cfg \in SeqsUpTo(CfgSet, MaxTrains)
    /\ trains = <<>>
    /\ running = TRUE
    /\ ticks = 0
    /\ flagged = <<>>
    /\ bodies = <<>>
    /\ err = NoErr
    /\ TrainIdle
    /\ EditorIdle

\* The index of the first cfg for which Train.__init__ raises, or 0.
FirstBad(cfgs) ==
    IF \E i \in 1..Len(cfgs) : TrainError(cfgs[i]) # NoErr
    THEN CHOOSE i \in 1..Len(cfgs) :
            /\ TrainError(cfgs[i]) # NoErr
            /\ \A k \in 1..(i - 1) : TrainError(cfgs[k]) = NoErr
    ELSE 0

SkipBadTrains(cfgs) ==
    LET good == SelectSeq(cfgs, LAMBDA c : TrainError(c) = NoErr)
    IN [ok |-> TRUE, trains |-> [i \in 1..Len(good) |-> Train(good[i])],
        err |-> NoErr]

\* trains = [Train(cfg) for cfg in trains_cfg]
BuildTrains(cfgs) ==
    IF FirstBad(cfgs) = 0
    THEN [ok |-> TRUE, trains |-> [i \in 1..Len(cfgs) |-> Train(cfgs[i])],
          err |-> NoErr]
    ELSE [ok |-> FALSE, trains |-> <<>>, err |-> TrainError(cfgs[FirstBad(cfgs)])]

\* line 246: the list comprehension; an exception ends the program
LoadTrains ==
    /\ pc = "load"
    /\ LET r == BuildTrains(trains_cfg)
       IN /\ trains' = r.trains
          /\ err' = r.err
          /\ pc' = IF r.ok THEN "poll" ELSE "error"
    /\ UNCHANGED <<trains_cfg, running, ticks, flagged, bodies>>
    /\ UNCHANGED <<trainVars, editorVars>>

\* lines 251-258: the loop test, then the event poll
PollEvents ==
    /\ pc = "poll"
    /\ running
    /\ ticks < MaxTicks
    /\ \E quit \in BOOLEAN : running' = (running /\ ~quit)
    /\ pc' = "update"
    /\ UNCHANGED <<trains_cfg, trains, ticks, flagged, bodies, err>>
    /\ UNCHANGED <<trainVars, editorVars>>

\* lines 261-262
UpdateTrains ==
    /\ pc = "update"
    /\ trains' = [i \in 1..Len(trains) |-> step(trains[i], 1)]
    /\ pc' = "draw"
    /\ UNCHANGED <<trains_cfg, running, ticks, flagged, bodies, err>>
    /\ UNCHANGED <<trainVars, editorVars>>

\* lines 265-271: the trains are drawn in order; the first draw that raises
\* ends the program
DrawTrains ==
    /\ pc = "draw"
    /\ IF \E i \in 1..Len(trains) : DrawRaises(trains[i])
       THEN LET bad == CHOOSE i \in 1..Len(trains) :
                          /\ DrawRaises(trains[i])
                          /\ \A k \in 1..(i - 1) : ~DrawRaises(trains[k])
            IN /\ bodies' = [i \in 1..(bad - 1) |-> draw(trains[i])]
               /\ err' = [kind |-> "ZeroDivisionError", id |-> trains[bad].id,
                          what |-> "float modulo", node |-> None]
               /\ pc' = "crashed"
       ELSE /\ bodies' = [i \in 1..Len(trains) |-> draw(trains[i])]
            /\ err' = err
            /\ pc' = "detect"
    /\ UNCHANGED <<trains_cfg, trains, running, ticks, flagged>>
    /\ UNCHANGED <<trainVars, editorVars>>

\* lines 272-275
DetectCollisions ==
    /\ pc = "detect"
    /\ flagged' = Append(flagged, detect_collisions(trains, flagged))
    /\ ticks' = ticks + 1
    /\ pc' = "poll"
    /\ UNCHANGED <<trains_cfg, trains, running, bodies, err>>
    /\ UNCHANGED <<trainVars, editorVars>>

\* lines 277-278
Exit ==
    /\ pc = "poll"
    /\ ~running
    /\ pc' = "exit"
    /\ UNCHANGED <<trains_cfg, trains, running, ticks, flagged, bodies, err>>
    /\ UNCHANGED <<trainVars, editorVars>>

Next ==
    \/ LoadTrains
    \/ PollEvents
    \/ UpdateTrains
    \/ DrawTrains
    \/ DetectCollisions
    \/ Exit

Spec == Init /\ [][Next]_vars

\* ------------------------------------------- one Train, called directly
DtSet == {1, 2, 7}

DSet == {-320, -200, -100, -60, -20, 0, 20, 60, 100, 120, 140, 160, 200, 320}

KSet == {-2, -1, 0, 1, 3}

InitTrain ==
    /\ \E cfg \in CfgSet :
          /\ TrainError(cfg) = NoErr
          /\ tr = Train(cfg)
          /\ ref = Train(cfg)
    /\ call = NoCall
    /\ MainIdle
    /\ EditorIdle

\* tr.step(dt); the same call on ref
Advance ==
    /\ Abs(tr.abs_dist) <= MaxAbsDist
    /\ \E dt \in DtSet :
          /\ tr' = step(tr, dt)
          /\ ref' = step(ref, dt)
          /\ call' = [op |-> "step", dt |-> <<dt>>]
    /\ UNCHANGED <<mainVars, editorVars>>

\* tr.step(dt1); tr.step(dt2) against ref.step(dt1 + dt2)
AdvanceTwice ==
    /\ Abs(tr.abs_dist) <= MaxAbsDist
    /\ \E dt1 \in DtSet, dt2 \in DtSet :
          /\ tr' = step(step(tr, dt1), dt2)
          /\ ref' = step(ref, dt1 + dt2)
          /\ call' = [op |-> "step", dt |-> <<dt1, dt2>>]
    /\ UNCHANGED <<mainVars, editorVars>>

\* tr.get_pos_at(d) and tr.get_pos_at(d + k * total_len)
Query ==
    /\ \E d \in DSet, k \in KSet :
          call' = [op |-> "get_pos_at", d |-> d, k |-> k,
                   at |-> get_pos_at(tr, d),
                   shifted |-> get_pos_at(tr, d + k * tr.total_len)]
    /\ UNCHANGED <<tr, ref, mainVars, editorVars>>

NextTrain == Advance \/ AdvanceTwice \/ Query

SpecTrain == InitTrain /\ [][NextTrain]_vars

\* --------------------------------------------------------- node_editor.py
NODE_RADIUS == 10

GRID_SIZE == 20

NODE_TYPES == <<"turn", "station", "junction", "intersection">>

\* chr(ord('A') + k)
Letter(k) == <<"A", "B", "C", "D", "E", "F", "G", "H">>[k + 1]

\* Where the mouse events of the model happen (ev.pos, in pixels).
ClickSet == {<<20, 20>>, <<60, 20>>, <<30, 50>>, <<30, 90>>, <<200, 200>>}

\* Python's round(x / g) for x >= 0: halves go to the even integer.
RoundDiv(x, g) ==
    LET f == x \div g
        r == x % g
    IN IF 2 * r < g THEN f
       ELSE IF 2 * r > g THEN f + 1
       ELSE IF f % 2 = 0 THEN f ELSE f + 1

snap(pos) ==
    <<GRID_SIZE * RoundDiv(pos[1], GRID_SIZE),
      GRID_SIZE * RoundDiv(pos[2], GRID_SIZE)>>

\* nodes is a dict; enodes lists its items in insertion order.
NodeIndex(name) == CHOOSE i \in 1..Len(enodes) : enodes[i].name = name

HasNode(name) == \E i \in 1..Len(enodes) : enodes[i].name = name

RECURSIVE GetNodeFrom(_, _)
GetNodeFrom(i, pos) ==
    IF i > Len(enodes) THEN None
    ELSE LET x == enodes[i].pos[1]
             y == enodes[i].pos[2]
         IN IF (x - pos[1]) * (x - pos[1]) + (y - pos[2]) * (y - pos[2])
                 <= NODE_RADIUS * NODE_RADIUS
            THEN enodes[i].name
            ELSE GetNodeFrom(i + 1, pos)

get_node_at(pos) == GetNodeFrom(1, pos)

\* The context menu: "Delete Node", "Delete Edges", then "Type: t" per type.
options ==
    <<[kind |-> "Delete Node"], [kind |-> "Delete Edges"]>>
        \o [i \in 1..Len(NODE_TYPES) |-> [kind |-> "Type:", type |-> NODE_TYPES[i]]]

\* The index of the first menu row under p (lines 92-93), or 0.
HitOption(menu, p) ==
    LET cx == menu.pos[1]
        cy == menu.pos[2]
        hit(i) == /\ cx <= p[1] /\ p[1] <= cx + 120
                  /\ cy + (i - 1) * 20 <= p[2] /\ p[2] <= cy + i * 20
    IN IF \E i \in 1..Len(menu.options) : hit(i)
       THEN CHOOSE i \in 1..Len(menu.options) :
                hit(i) /\ \A k \in 1..(i - 1) : ~hit(k)
       ELSE 0

\* [e for e in edges if node_name not in e]
WithoutNode(es, name) == SelectSeq(es, LAMBDA e : e[1] # name /\ e[2] # name)

\* del nodes[name]
DelNode(name) == SelectSeq(enodes, LAMBDA n : n.name # name)

Record(ev) ==
    IF events # More /\ Len(events) < MaxEvents THEN Append(events, ev) ELSE More

InitEditor ==
    /\ enodes = <<>>
    /\ edges = <<>>
    /\ node_counter = 0
    /\ selected_node = None
    /\ dragging_node = None
    /\ connecting_node = None
    /\ context_menu = NoMenu
    /\ erunning = TRUE
    /\ eerr = NoErr
    /\ saved = FALSE
    /\ events = <<>>
    /\ MainIdle
    /\ TrainIdle

\* lines 89-109: a left click while the context menu is open
MenuClick(p) ==
    LET i == HitOption(context_menu, p)
        opt == context_menu.options[i]
        node_name == selected_node
    IN /\ context_menu' = NoMenu
       /\ IF i # 0 /\ node_name # None /\ opt.kind = "Delete Node"
          THEN /\ edges' = WithoutNode(edges, node_name)
               /\ enodes' = DelNode(node_name)
               /\ selected_node' = None
          ELSE IF i # 0 /\ node_name # None /\ opt.kind = "Delete Edges"
          THEN /\ edges' = WithoutNode(edges, node_name)
               /\ UNCHANGED <<enodes, selected_node>>
          ELSE IF i # 0 /\ node_name # None /\ opt.kind = "Type:"
          THEN /\ enodes' = [enodes EXCEPT ![NodeIndex(node_name)].type = opt.type]
               /\ UNCHANGED <<edges, selected_node>>
          ELSE UNCHANGED <<enodes, edges, selected_node>>
       /\ UNCHANGED <<node_counter, dragging_node>>

\* lines 111-119: a left click with no menu open
PlaceOrGrab(p) ==
    LET pos == snap(p)
        node_name == get_node_at(pos)
    IN IF node_name # None
       THEN /\ dragging_node' = node_name
            /\ selected_node' = node_name
            /\ UNCHANGED <<enodes, node_counter>>
       ELSE /\ node_counter < MaxNodes
            /\ enodes' = Append(enodes, [name |-> Letter(node_counter),
                                         pos |-> pos, type |-> "turn"])
            /\ node_counter' = node_counter + 1
            /\ selected_node' = Letter(node_counter)
            /\ UNCHANGED dragging_node

\* MOUSEBUTTONDOWN, button 1
LeftClick ==
    /\ erunning
    /\ \E p \in ClickSet :
          /\ IF context_menu.open
             THEN MenuClick(p)
             ELSE PlaceOrGrab(p) /\ UNCHANGED <<context_menu, edges>>
          /\ events' = Record(<<1, p>>)
    /\ UNCHANGED <<connecting_node, erunning, eerr, saved>>
    /\ UNCHANGED <<mainVars, trainVars>>

\* MOUSEBUTTONDOWN, button 3 (lines 121-137).  In the else branch
\* get_node_at(pos) is evaluated again, on the same pos and the same nodes.
\* The duplicate test of line 135 looks for a tuple in a list of lists and
\* finds none, so the append is unconditional.
RightClick ==
    /\ erunning
    /\ \E p \in ClickSet :
          LET pos == snap(p)
              node_name == get_node_at(pos)
              again == get_node_at(pos)
          IN /\ IF node_name # None
                THEN /\ selected_node' = node_name
                     /\ context_menu' = [open |-> TRUE, pos |-> p,
                                         options |-> options]
                     /\ UNCHANGED <<connecting_node, edges>>
                ELSE IF again # None
                THEN IF connecting_node = None
                     THEN /\ connecting_node' = again
                          /\ UNCHANGED <<selected_node, context_menu, edges>>
                     ELSE /\ edges' = Append(edges, <<connecting_node, again>>)
                          /\ connecting_node' = None
                          /\ UNCHANGED <<selected_node, context_menu>>
                ELSE UNCHANGED <<selected_node, context_menu, connecting_node,
                                 edges>>
             /\ events' = Record(<<3, p>>)
    /\ UNCHANGED <<enodes, node_counter, dragging_node, erunning, eerr, saved>>
    /\ UNCHANGED <<mainVars, trainVars>>

\* MOUSEBUTTONUP, button 1
MouseUp ==
    /\ erunning
    /\ dragging_node' = None
    /\ events' = More
    /\ UNCHANGED <<enodes, edges, node_counter, selected_node, connecting_node,
                   context_menu, erunning, eerr, saved>>
    /\ UNCHANGED <<mainVars, trainVars>>

\* MOUSEMOTION: nodes[dragging_node]["pos"] = snap(ev.pos); KeyError when the
\* dragged node has been deleted
MouseMotion ==
    /\ erunning
    /\ \E p \in ClickSet :
          IF dragging_node = None
          THEN UNCHANGED <<enodes, erunning, eerr, saved>>
          ELSE IF HasNode(dragging_node)
          THEN /\ enodes' = [enodes EXCEPT ![NodeIndex(dragging_node)].pos = snap(p)]
               /\ UNCHANGED <<erunning, eerr, saved>>
          ELSE /\ eerr' = [kind |-> "KeyError", node |-> dragging_node]
               /\ erunning' = FALSE
               /\ UNCHANGED <<enodes, saved>>
    /\ events' = More
    /\ UNCHANGED <<edges, node_counter, selected_node, dragging_node,
                   connecting_node, context_menu>>
    /\ UNCHANGED <<mainVars, trainVars>>

\* KEYDOWN, K_s: json.dump of nodes and edges to nodes.json
KeySave ==
    /\ erunning
    /\ saved' = TRUE
    /\ events' = More
    /\ UNCHANGED <<enodes, edges, node_counter, selected_node, dragging_node,
                   connecting_node, context_menu, erunning, eerr>>
    /\ UNCHANGED <<mainVars, trainVars>>

\* KEYDOWN, K_ESCAPE
KeyEscape ==
    /\ erunning
    /\ connecting_node' = None
    /\ context_menu' = NoMenu
    /\ events' = More
    /\ UNCHANGED <<enodes, edges, node_counter, selected_node, dragging_node,
                   erunning, eerr, saved>>
    /\ UNCHANGED <<mainVars, trainVars>>

\* QUIT; the loop ends, no later event is handled
Quit ==
    /\ erunning
    /\ erunning' = FALSE
    /\ events' = More
    /\ UNCHANGED <<enodes, edges, node_counter, selected_node, dragging_node,
                   connecting_node, context_menu, eerr, saved>>
    /\ UNCHANGED <<mainVars, trainVars>>

NextEditor ==
    \/ LeftClick
    \/ RightClick
    \/ MouseUp
    \/ MouseMotion
    \/ KeySave
    \/ KeyEscape
    \/ Quit

SpecEditor == InitEditor /\ [][NextEditor]_vars

C7_StepAdditive == tr.abs_dist = ref.abs_dist

\* Two steps against one, on a zero-length route, the distance beyond 0.
C7_Witness ==
    /\ call.op = "step"
    /\ Len(call.dt) = 2
    /\ call.dt[1] # call.dt[2]
    /\ tr.total_len = 0
    /\ tr.abs_dist > 20

\* C4: for total_len > 0, get_pos_at(d + k * total_len) = get_pos_at(d) for
\* every d (negative too) and integer k; get_pos_at(0) and
\* get_pos_at(total_len) are the position of the first node of the route.
C4_Periodic ==
    (call.op = "get_pos_at" /\ tr.total_len > 0)
        => /\ call.at = call.shifted
           /\ call.d = 0 => call.shifted = nodes[tr.route[1]].pos

\* A query at a negative d against the same d moved by whole laps.
C4_Witness ==
    /\ call.op = "get_pos_at"
    /\ tr.total_len > 0
    /\ call.d < 0
    /\ call.k > 0
    /\ call.d + call.k * tr.total_len > 0
    /\ call.at # nodes[tr.route[1]].pos

\* C2: on a route of exactly one node, get_pos_at(d) is that node's position
\* for every d.
C2_SingleNodePosition ==
    (call.op = "get_pos_at" /\ Len(tr.route) = 1)
        => call.at = nodes[tr.route[1]].pos

\* The arc-length parametrisation: the point at offset d - cum(k) on a
\* segment k of positive length with cum(k) <= d <= cum(k + 1).
ArcPoint(t, d) ==
    LET cum(k) == SumSeq(SubSeq(t.edge_lengths, 1, k - 1))
        k == CHOOSE i \in 1..Len(t.edge_lengths) :
                /\ t.edge_lengths[i] > 0
                /\ cum(i) <= d
                /\ d <= cum(i + 1)
    IN lerp(t.edge_points[k][1], t.edge_points[k][2],
            <<d - cum(k), t.edge_lengths[k]>>)

\* C10: get_pos_at parametrises the route by arc length, also when the
\* route has a zero-length segment: for 0 <= d < total_len the result is
\* the point of the route at arc length d.
C10_ArcLength ==
    (call.op = "get_pos_at" /\ 0 <= call.d /\ call.d < tr.total_len)
        => call.at = ArcPoint(tr, call.d)

\* A roster entry with an empty or absent route, or naming an unknown node.
BadEntry(cfg) ==
    LET r == IF "route" \in DOMAIN cfg /\ cfg.route # <<>> THEN cfg.route
             ELSE IF "path" \in DOMAIN cfg THEN cfg.path
             ELSE <<>>
    IN r = <<>> \/ \E k \in 1..Len(r) : r[k] \notin {"A", "B", "Bp", "C"}

\* C6: if a roster entry has an empty or absent route, or a route naming a
\* node that is not in the graph, construction raises ValueError before the
\* frame loop: no tick runs, no train is advanced, drawn or checked, and no
\* partial train list exists.
C6_BadRosterNeverRuns ==
    (\E i \in 1..Len(trains_cfg) : BadEntry(trains_cfg[i]))
        => /\ pc \in {"load", "error"}
           /\ trains = <<>>
           /\ ticks = 0
           /\ bodies = <<>>
           /\ flagged = <<>>
           /\ pc = "error" => err.kind = "ValueError"

\* Construction has failed on the second entry, after a valid first one.
C6_Witness ==
    /\ pc = "error"
    /\ Len(trains_cfg) = 2
    /\ ~BadEntry(trains_cfg[1])
    /\ err.what = "unknown node"
    /\ err.node = "Z"

\* C3: a roster with a single-node route runs every tick to completion;
\* no tick raises a division-by-zero error.
C3_NoDivisionByZero ==
    (\A i \in 1..Len(trains_cfg) : ~BadEntry(trains_cfg[i]))
        => err.kind # "ZeroDivisionError"

\* The unordered pairs of distinct trains whose front positions are closer
\* than half the sum of their lengths.
ClosePairs(ts) ==
    {pr \in {{i, j} : i \in 1..Len(ts), j \in 1..Len(ts)} :
        /\ Cardinality(pr) = 2
        /\ \E i \in pr, j \in pr :
              /\ i # j
              /\ LET pi == get_pos_at(ts[i], ts[i].abs_dist)
                     pj == get_pos_at(ts[j], ts[j].abs_dist)
                 IN 2 * 2 * DistSq(pi, pj)
                      < (ts[i].length + ts[j].length)
                          * (ts[i].length + ts[j].length)
              /\ ts[i].length + ts[j].length > 0}

\* C5: each run of detect_collisions reports exactly the unordered pairs of
\* distinct trains whose fronts are closer than (length_i + length_j) / 2,
\* each once, whatever the order of the roster, never a train with itself,
\* and nothing carried over from an earlier tick.
C5_DetectExact ==
    (pc = "poll" /\ ticks > 0)
        => LET last == flagged[Len(flagged)]
           IN /\ {{last[n][1], last[n][2]} : n \in 1..Len(last)}
                    = ClosePairs(trains)
              /\ Len(last) = Cardinality(ClosePairs(trains))
              /\ \A n \in 1..Len(last) : last[n][1] # last[n][2]

\* A pair reported in an earlier tick is apart now and is not reported.
C5_Witness ==
    /\ pc = "poll"
    /\ ticks > 1
    /\ \E n \in 1..(Len(flagged) - 1) :
          /\ flagged[n] # <<>>
          /\ flagged[Len(flagged)] = <<>>

\* C8: A = (0,0), B = (100,0), one train with route [A, B], length 40,
\* max_speed 2, start_dist 0: after 10 ticks abs_dist is 20, the front is at
\* (20,0) and the back, get_pos_at(20 - 40), is at (80,0).
C8_Scenario ==
    \A i \in 1..Len(trains) :
        (/\ pc = "poll"
         /\ ticks = 10
         /\ trains_cfg[i] = [id |-> "T1", route |-> <<"A", "B">>,
                             max_speed |-> 2, length |-> 40, start_dist |-> 0])
            => /\ trains[i].abs_dist = 20
               /\ get_pos_at(trains[i], trains[i].abs_dist) = <<20, 0>>
               /\ get_pos_at(trains[i], 20 - 40) = <<80, 0>>
               /\ bodies[i][1] = <<80, 0>>
               /\ bodies[i][Len(bodies[i])] = <<20, 0>>

\* The scenario's train, alone in the roster, after its tenth tick.
C8_Witness ==
    /\ pc = "poll"
    /\ ticks = 10
    /\ Len(trains) = 1
    /\ trains[1].id = "T1"
    /\ Len(bodies[1]) = 11

\* C9: from the empty graph, left clicks that place two nodes followed by a
\* right click on the first node and a right click on the second leave an
\* edge joining the two nodes in the edge list.
C9_ConnectTwoNodes ==
    \A p1 \in ClickSet, p2 \in ClickSet :
        (/\ snap(p1) # snap(p2)
         /\ events = <<(<<1, p1>>), (<<1, p2>>), (<<3, p1>>), (<<3, p2>>)>>)
            => \E n \in 1..Len(edges) :
                  {edges[n][1], edges[n][2]} = {"A", "B"}

\* No reachable state of the editor has an edge, or a connection in progress.
EdgesStayEmpty == edges = <<>> /\ connecting_node = None

====
